---- MODULE Spec2Model ----
(***************************************************************************)
(* Candidate-key enumeration of FuncDep (Lucchesi-Osborn): the bitmask     *)
(* Set of set.c, the dependency queue built by main, compute_closure,      *)
(* is_superkey, candidate_key_from_super_key and print_all_candidate_keys. *)
(*                                                                         *)
(* A Set is the struct of set.h: the 32-bit mask is the set of its bit     *)
(* positions that are 1, next to the fields size, cursor and count.  A     *)
(* Queue is the sequence of the keys of its nodes from tail (oldest) to    *)
(* head (newest).                                                          *)
(***************************************************************************)
EXTENDS Naturals, Integers, Sequences, FiniteSets, TLC

\* ------------------------------------------------------------------ bounds
\* largest n_attribs read from the first line of the file
MaxAttribs == 3
\* largest number of attribute letters in the dependency lines of the file
MaxLetters == 5

\* characters in one side of a line given to parse_attrib_list
MaxSideLen == 3

\* nodes of a Queue that malloc can hold at a time
MaxNodes == 3

\* characters of a line of the file before its newline
MaxLineLen == 3

\* --------------------------------------------------------------- constants
MAX_ATTRIBS == 26
INVALID_ATTRIB == MAX_ATTRIBS

VARIABLES
    pc,         \* position of the program
    n_attribs,  \* main: number of attributes (first line of the file)
    q,          \* main: queue of the functional dependencies read so far
    ckeys,      \* print_all_candidate_keys: queue of the keys found
    work,       \* print_all_candidate_keys: queue of the keys left to expand
    key,        \* print_all_candidate_keys: key popped from work
    iter,       \* print_all_candidate_keys: iterator over q (0 is NULL)
    out,        \* lines printed by Set_print and the final count
    arg,        \* direct call: the Set passed to the function
    res         \* direct call: what the function returned

vars == <<pc, n_attribs, q, ckeys, work, key, iter, out, arg, res>>

NULL == 0

\* F applied to the value of x: C passes its arguments by value, and a bound
\* variable is evaluated once, where an operator argument is evaluated again
\* every time the operator reads it.
ByValue(F(_), x) == CHOOSE y \in {F(v) : v \in {x}} : TRUE

\* ------------------------------------------------------------------- set.c
popcount(u) == Cardinality(u)

MkSet(u) == [set |-> u, size |-> popcount(u), cursor |-> 0, count |-> 0]

Set_union(s, t) == MkSet(s.set \cup t.set)

Set_intersection(s, t) == MkSet(s.set \cap t.set)

\* faulty variant: the complement of t is forgotten
Set_difference_NoComplement(s, t) == MkSet(s.set \cap t.set)

\* faulty variant: the operands are swapped
Set_difference_Swapped(s, t) == MkSet(t.set \ s.set)

Set_difference(s, t) == MkSet(s.set \ t.set)

\* faulty variant: one common attribute passes for containment
Set_contains_Overlap(s, t) == (s.set \cap t.set) # {}

Set_contains(s, t) == (s.set \cap t.set) = t.set

Set_init == [set |-> {}, size |-> 0, cursor |-> 0, count |-> 0]

Set_copy(other) ==
    [set |-> other.set, size |-> other.size, cursor |-> 0, count |-> 0]

\* faulty variant: the mask is one bit long
Set_full_OneLong(n) == [set |-> 0 .. n, size |-> n, cursor |-> 0, count |-> 0]

\* faulty variant: the mask is one bit short
Set_full_OneShort(n) ==
    [set |-> 0 .. (n - 2), size |-> n, cursor |-> 0, count |-> 0]

Set_full(n) == [set |-> 0 .. (n - 1), size |-> n, cursor |-> 0, count |-> 0]

Set_is_full(s, n) == s.size = n

\* the assert lines of Set_remove
Set_remove_asserted(s, i) == i < MAX_ATTRIBS /\ i \in s.set /\ s.cursor = 0

\* faulty variant: the size is decremented but the bit stays
Set_remove_KeepsBit(s, i) == [s EXCEPT !.size = (s.size + 255) % 256]

\* the bit is toggled (^=) and the size decremented as a uint8_t
Set_remove(s, i) ==
    [s EXCEPT !.set = IF i \in s.set THEN s.set \ {i} ELSE s.set \cup {i},
              !.size = (s.size + 255) % 256]

\* the assert lines of Set_insert
Set_insert_asserted(s, i) == i < MAX_ATTRIBS /\ s.cursor = 0

\* faulty variant: the test for an attribute already contained is missing
Set_insert_NoTest(s, i) ==
    [s EXCEPT !.set = s.set \cup {i}, !.size = (s.size + 1) % 256]

Set_insert(s, i) ==
    IF i \in s.set THEN s
    ELSE [s EXCEPT !.set = s.set \cup {i}, !.size = (s.size + 1) % 256]

Set_clear == [set |-> {}, size |-> 0, cursor |-> 0, count |-> 0]

\* faulty variant: cursor and count are reset one member early
Set_next_pos_ResetEarly(s) ==
    LET ahead == {i \in s.set : i >= s.cursor /\ i < MAX_ATTRIBS}
    IN  IF ahead = {}
        THEN [s |-> s, pos |-> INVALID_ATTRIB]
        ELSE LET i == CHOOSE j \in ahead : \A k \in ahead : j <= k
             IN  IF (s.count + 2) % 256 = s.size
                 THEN [s |-> [s EXCEPT !.cursor = 0, !.count = 0], pos |-> i]
                 ELSE [s |-> [s EXCEPT !.cursor = i + 1,
                                       !.count = (s.count + 1) % 256],
                       pos |-> i]

\* faulty variant: cursor and count are never reset
Set_next_pos_NoReset(s) ==
    LET ahead == {i \in s.set : i >= s.cursor /\ i < MAX_ATTRIBS}
    IN  IF ahead = {}
        THEN [s |-> s, pos |-> INVALID_ATTRIB]
        ELSE LET i == CHOOSE j \in ahead : \A k \in ahead : j <= k
             IN  [s |-> [s EXCEPT !.cursor = i + 1,
                                  !.count = (s.count + 1) % 256],
                  pos |-> i]

\* faulty variant: the cursor stays on the position returned
Set_next_pos_CursorStuck(s) ==
    LET ahead == {i \in s.set : i >= s.cursor /\ i < MAX_ATTRIBS}
    IN  IF ahead = {}
        THEN [s |-> s, pos |-> INVALID_ATTRIB]
        ELSE LET i == CHOOSE j \in ahead : \A k \in ahead : j <= k
             IN  IF (s.count + 1) % 256 = s.size
                 THEN [s |-> [s EXCEPT !.cursor = 0, !.count = 0], pos |-> i]
                 ELSE [s |-> [s EXCEPT !.cursor = i,
                                       !.count = (s.count + 1) % 256],
                       pos |-> i]

\* faulty variant: cursor and count are reset one call late
Set_next_pos_ResetLate(s) ==
    LET ahead == {i \in s.set : i >= s.cursor /\ i < MAX_ATTRIBS}
    IN  IF ahead = {}
        THEN [s |-> s, pos |-> INVALID_ATTRIB]
        ELSE LET i == CHOOSE j \in ahead : \A k \in ahead : j <= k
             IN  IF s.count = s.size
                 THEN [s |-> [s EXCEPT !.cursor = 0, !.count = 0], pos |-> i]
                 ELSE [s |-> [s EXCEPT !.cursor = i + 1,
                                       !.count = (s.count + 1) % 256],
                       pos |-> i]

\* the Set after the call and the position returned
Set_next_pos(s) ==
    LET ahead == {i \in s.set : i >= s.cursor /\ i < MAX_ATTRIBS}
    IN  IF ahead = {}
        THEN [s |-> s, pos |-> INVALID_ATTRIB]
        ELSE LET i == CHOOSE j \in ahead : \A k \in ahead : j <= k
             IN  IF (s.count + 1) % 256 = s.size
                 THEN [s |-> [s EXCEPT !.cursor = 0, !.count = 0], pos |-> i]
                 ELSE [s |-> [s EXCEPT !.cursor = i + 1,
                                       !.count = (s.count + 1) % 256],
                       pos |-> i]

RECURSIVE Set_print_loop(_, _, _)
Set_print_loop(s, i, line) ==
    IF i >= s.size THEN line
    ELSE ByValue(LAMBDA np : Set_print_loop(np.s, i + 1, Append(line, np.pos)),
                 Set_next_pos(s))

\* the positions printed on one line, in the order printed
Set_print(s) == ByValue(LAMBDA v : Set_print_loop(v, 0, <<>>), s)

\* ----------------------------------------------------------------- queue.c
Q_init == <<>>

\* faulty variant: the node is linked in at the head
Q_insert_Front(queue, k) == <<k>> \o queue

\* faulty variant: the node is linked in twice
Q_insert_Twice(queue, k) == Append(Append(queue, k), k)

Q_insert(queue, k) == Append(queue, k)

\* faulty variant: the node is returned but stays in the queue
Q_pop_NoUnlink(queue) == [key |-> Head(queue), queue |-> queue]

\* the key returned and the queue left
Q_pop(queue) == [key |-> Head(queue), queue |-> Tail(queue)]

Q_iterator(queue) == IF Len(queue) = 0 THEN NULL ELSE 1

Q_next(queue, it) == IF it < Len(queue) THEN it + 1 ELSE NULL

Q_free(queue) == <<>>

\* --------------------------------------------------------- compute_closure
\* one pass of the inner while over the dependencies, from iterator it on
\* faulty variant: Set_contains is called with closure and lhs exchanged
RECURSIVE closure_pass_LhsSwapped(_, _, _, _, _)
closure_pass_LhsSwapped(closure, deps, it, n, is_new_attrib) ==
    IF it = NULL
    THEN [closure |-> closure, is_new_attrib |-> is_new_attrib, end |-> FALSE]
    ELSE IF Set_contains(deps[it].lhs, closure)
             /\ ~Set_contains(closure, deps[it].rhs)
         THEN ByValue(LAMBDA c :
                  IF Set_is_full(c, n)
                  THEN [closure |-> c, is_new_attrib |-> is_new_attrib,
                        end |-> TRUE]
                  ELSE closure_pass_LhsSwapped(c, deps, Q_next(deps, it), n, 1),
                  Set_union(closure, deps[it].rhs))
         ELSE closure_pass_LhsSwapped(closure, deps, Q_next(deps, it), n,
                                      is_new_attrib)

\* faulty variant: is_new_attrib is never set, so one pass is the last
RECURSIVE closure_pass_NoFlag(_, _, _, _, _)
closure_pass_NoFlag(closure, deps, it, n, is_new_attrib) ==
    IF it = NULL
    THEN [closure |-> closure, is_new_attrib |-> is_new_attrib, end |-> FALSE]
    ELSE IF Set_contains(closure, deps[it].lhs)
             /\ ~Set_contains(closure, deps[it].rhs)
         THEN ByValue(LAMBDA c :
                  IF Set_is_full(c, n)
                  THEN [closure |-> c, is_new_attrib |-> is_new_attrib,
                        end |-> TRUE]
                  ELSE closure_pass_NoFlag(c, deps, Q_next(deps, it), n,
                                           is_new_attrib),
                  Set_union(closure, deps[it].rhs))
         ELSE closure_pass_NoFlag(closure, deps, Q_next(deps, it), n,
                                  is_new_attrib)

RECURSIVE closure_pass(_, _, _, _, _)
closure_pass(closure, deps, it, n, is_new_attrib) ==
    IF it = NULL
    THEN [closure |-> closure, is_new_attrib |-> is_new_attrib, end |-> FALSE]
    ELSE IF Set_contains(closure, deps[it].lhs)
             /\ ~Set_contains(closure, deps[it].rhs)
         THEN ByValue(LAMBDA c :
                  IF Set_is_full(c, n)
                  THEN [closure |-> c, is_new_attrib |-> is_new_attrib,
                        end |-> TRUE]
                  ELSE closure_pass(c, deps, Q_next(deps, it), n, 1),
                  Set_union(closure, deps[it].rhs))
         ELSE closure_pass(closure, deps, Q_next(deps, it), n, is_new_attrib)

\* faulty variant: the passes are not repeated
closure_while_Once(closure, deps, n) ==
    closure_pass(closure, deps, Q_iterator(deps), n, 0).closure

RECURSIVE closure_while(_, _, _)
closure_while(closure, deps, n) ==
    ByValue(LAMBDA r :
                IF r.end THEN r.closure
                ELSE IF r.is_new_attrib = 1
                     THEN closure_while(r.closure, deps, n)
                     ELSE r.closure,
            closure_pass(closure, deps, Q_iterator(deps), n, 0))

compute_closure(s, deps, n) ==
    ByValue(LAMBDA closure : closure_while(closure, deps, n), Set_copy(s))

\* ------------------------------------------------------------- is_superkey
\* faulty variant: a union does not set is_new_attrib
RECURSIVE superkey_pass_NoFlag(_, _, _, _, _)
superkey_pass_NoFlag(closure, deps, it, n, is_new_attrib) ==
    IF it = NULL
    THEN [closure |-> closure, is_new_attrib |-> is_new_attrib, ret |-> FALSE]
    ELSE IF Set_contains(closure, deps[it].lhs)
             /\ ~Set_contains(closure, deps[it].rhs)
         THEN ByValue(LAMBDA c :
                  IF Set_is_full(c, n)
                  THEN [closure |-> c, is_new_attrib |-> is_new_attrib,
                        ret |-> TRUE]
                  ELSE superkey_pass_NoFlag(c, deps, Q_next(deps, it), n,
                                            is_new_attrib),
                  Set_union(closure, deps[it].rhs))
         ELSE superkey_pass_NoFlag(closure, deps, Q_next(deps, it), n,
                                   is_new_attrib)

RECURSIVE superkey_pass(_, _, _, _, _)
superkey_pass(closure, deps, it, n, is_new_attrib) ==
    IF it = NULL
    THEN [closure |-> closure, is_new_attrib |-> is_new_attrib, ret |-> FALSE]
    ELSE IF Set_contains(closure, deps[it].lhs)
             /\ ~Set_contains(closure, deps[it].rhs)
         THEN ByValue(LAMBDA c :
                  IF Set_is_full(c, n)
                  THEN [closure |-> c, is_new_attrib |-> is_new_attrib,
                        ret |-> TRUE]
                  ELSE superkey_pass(c, deps, Q_next(deps, it), n, 1),
                  Set_union(closure, deps[it].rhs))
         ELSE superkey_pass(closure, deps, Q_next(deps, it), n, is_new_attrib)

\* faulty variant: the passes are not repeated
superkey_while_Once(closure, deps, n) ==
    IF superkey_pass(closure, deps, Q_iterator(deps), n, 0).ret THEN 1 ELSE 0

RECURSIVE superkey_while(_, _, _)
superkey_while(closure, deps, n) ==
    ByValue(LAMBDA r :
                IF r.ret THEN 1
                ELSE IF r.is_new_attrib = 1
                     THEN superkey_while(r.closure, deps, n)
                     ELSE 0,
            superkey_pass(closure, deps, Q_iterator(deps), n, 0))

is_superkey(s, deps, n) ==
    ByValue(LAMBDA closure : superkey_while(closure, deps, n), Set_copy(s))

\* -------------------------------------------- candidate_key_from_super_key
\* the body of the for loop: ckey after the attribute at pos was tried
ckey_for_body(ckey, pos, deps, n) ==
    ByValue(LAMBDA temp :
                IF is_superkey(temp, deps, n) = 1 THEN Set_copy(temp) ELSE ckey,
            Set_remove(Set_copy(ckey), pos))

\* faulty variant: the loop stops before the last attribute of skey
RECURSIVE ckey_for_OffByOne(_, _, _, _, _)
ckey_for_OffByOne(skey, ckey, i, deps, n) ==
    IF i + 1 >= skey.size THEN ckey
    ELSE ByValue(LAMBDA st :
                     ckey_for_OffByOne(st.skey, st.ckey, i + 1, deps, n),
                 ByValue(LAMBDA np :
                             [skey |-> np.s,
                              ckey |-> ckey_for_body(ckey, np.pos, deps, n)],
                         Set_next_pos(skey)))

RECURSIVE ckey_for(_, _, _, _, _)
ckey_for(skey, ckey, i, deps, n) ==
    IF i >= skey.size THEN ckey
    ELSE ByValue(LAMBDA st : ckey_for(st.skey, st.ckey, i + 1, deps, n),
                 ByValue(LAMBDA np :
                             [skey |-> np.s,
                              ckey |-> ckey_for_body(ckey, np.pos, deps, n)],
                         Set_next_pos(skey)))

candidate_key_from_super_key(skey, deps, n) ==
    ByValue(LAMBDA s : ckey_for(s, Set_copy(s), 0, deps, n), skey)

\* ---------------------------------------------------------------- main
Universe(n) == 0 .. (n - 1)

\* a character is modelled by its distance from 'A'
Comma == 44 - 65

Blank == 32 - 65

Minus == 45 - 65

Greater == 62 - 65

Newline == 10 - 65

\* strtok_r takes each character of its second argument for a delimiter
DELIM == {Comma}

SEP == {Minus, Greater}

is_valid_attrib(attrib) == 0 <= attrib /\ attrib <= 25

\* strtok_r(str, delim, saveptr) called until it returns NULL: the tokens are
\* the longest runs of characters that are not in delim
RECURSIVE strtok_r(_, _, _, _, _)
strtok_r(str, delim, k, token, tokens) ==
    IF k > Len(str)
    THEN IF token = <<>> THEN tokens ELSE Append(tokens, token)
    ELSE IF str[k] \in delim
    THEN strtok_r(str, delim, k + 1, <<>>,
                  IF token = <<>> THEN tokens ELSE Append(tokens, token))
    ELSE strtok_r(str, delim, k + 1, Append(token, str[k]), tokens)

\* the while (*iter != '\0') loop: the index of the first letter of a token,
\* INVALID_ATTRIB when it has none
RECURSIVE first_letter(_, _)
first_letter(attrib, it) ==
    IF it > Len(attrib) THEN INVALID_ATTRIB
    ELSE IF is_valid_attrib(attrib[it]) THEN attrib[it]
    ELSE first_letter(attrib, it + 1)

\* faulty variant: the index n_attribs passes the range test
RECURSIVE parse_while_OffByOne(_, _, _, _, _)
parse_while_OffByOne(tokens, k, n, attribs, calls) ==
    IF k > Len(tokens)
    THEN [ierr |-> 0, attribs |-> attribs, calls |-> calls]
    ELSE ByValue(LAMBDA index :
             IF index # INVALID_ATTRIB /\ index > n
             THEN [ierr |-> 1, attribs |-> attribs, calls |-> calls]
             ELSE IF index = INVALID_ATTRIB
             THEN [ierr |-> 1, attribs |-> attribs, calls |-> calls]
             ELSE parse_while_OffByOne(tokens, k + 1, n,
                                       Set_insert(attribs, index),
                                       Append(calls, index)),
             first_letter(tokens[k], 1))

\* the while (attrib != NULL) loop over the tokens strtok_r cuts at ",":
\* the error code, the Set built and the indices passed to Set_insert
RECURSIVE parse_while(_, _, _, _, _)
parse_while(tokens, k, n, attribs, calls) ==
    IF k > Len(tokens)
    THEN [ierr |-> 0, attribs |-> attribs, calls |-> calls]
    ELSE ByValue(LAMBDA index :
             IF index # INVALID_ATTRIB /\ index >= n
             THEN [ierr |-> 1, attribs |-> attribs, calls |-> calls]
             ELSE IF index = INVALID_ATTRIB
             THEN [ierr |-> 1, attribs |-> attribs, calls |-> calls]
             ELSE parse_while(tokens, k + 1, n,
                              Set_insert(attribs, index),
                              Append(calls, index)),
             first_letter(tokens[k], 1))

parse_attrib_list(attrib_list, n) ==
    ByValue(LAMBDA tokens : parse_while(tokens, 1, n, Set_init, <<>>),
            strtok_r(attrib_list, DELIM, 1, <<>>, <<>>))

\* main, the body of while (fgets ...) for one line: whether the program
\* exits with EXIT_FAILURE, and the two Sets parsed
main_line(line_buf, n) ==
    IF line_buf = <<>> \/ line_buf[Len(line_buf)] # Newline
    THEN [exit |-> TRUE, s_left |-> Set_init, s_right |-> Set_init]
    ELSE ByValue(LAMBDA lists :
             IF Len(lists) < 1
             THEN [exit |-> TRUE, s_left |-> Set_init, s_right |-> Set_init]
             ELSE ByValue(LAMBDA l :
                 IF l.ierr # 0
                 THEN [exit |-> TRUE, s_left |-> l.attribs, s_right |-> Set_init]
                 ELSE IF Len(lists) < 2
                 THEN [exit |-> TRUE, s_left |-> l.attribs, s_right |-> Set_init]
                 ELSE ByValue(LAMBDA r :
                          [exit |-> r.ierr # 0, s_left |-> l.attribs,
                           s_right |-> r.attribs],
                          parse_attrib_list(lists[2], n)),
                 parse_attrib_list(lists[1], n)),
             strtok_r(line_buf, SEP, 1, <<>>, <<>>))

\* the Sets parse_attrib_list makes of a side that holds attribute letters
Sides(n) == {MkSet(u) : u \in (SUBSET Universe(n)) \ {{}}}

QKey(l, r) == [lhs |-> l, rhs |-> r]

\* attribute letters of the lines queued so far
RECURSIVE Letters(_)
Letters(deps) ==
    IF deps = <<>> THEN 0
    ELSE Head(deps).lhs.size + Head(deps).rhs.size + Letters(Tail(deps))

NoSet == [set |-> {}, size |-> 0, cursor |-> 0, count |-> 0]

Result(op, in, prev, val) == [op |-> op, in |-> in, prev |-> prev, val |-> val]

NoResult == Result("none", NoSet, NoSet, 0)

Init ==
    /\ pc = "main"
    /\ n_attribs \in 1 .. MaxAttribs
    /\ q = Q_init
    /\ ckeys = <<>>
    /\ work = <<>>
    /\ key = QKey(NoSet, NoSet)
    /\ iter = NULL
    /\ out = <<>>
    /\ arg = NoSet
    /\ res = NoResult

\* main: one more line "lhs -> rhs" is read, parsed and queued
ReadLine ==
    /\ pc = "main"
    /\ \E s_left \in Sides(n_attribs), s_right \in Sides(n_attribs) :
           /\ Letters(q) + s_left.size + s_right.size <= MaxLetters
           /\ q' = Q_insert(q, QKey(s_left, s_right))
    /\ UNCHANGED <<pc, n_attribs, ckeys, work, key, iter, out, arg, res>>

\* ---------------------------------------------- print_all_candidate_keys
\* faulty variant: the seed is tested against the first key only
inclusion_test_FirstOnly(S, found, ckey_iter) ==
    IF ckey_iter = NULL THEN 1
    ELSE IF Set_contains(S, found[ckey_iter].lhs) THEN 0
    ELSE 1

\* faulty variant: the key found last is not tested
RECURSIVE inclusion_test_SkipLast(_, _, _)
inclusion_test_SkipLast(S, found, ckey_iter) ==
    IF ckey_iter = NULL \/ Q_next(found, ckey_iter) = NULL THEN 1
    ELSE IF Set_contains(S, found[ckey_iter].lhs) THEN 0
    ELSE inclusion_test_SkipLast(S, found, Q_next(found, ckey_iter))

\* the test of a seed S against the keys found so far
RECURSIVE inclusion_test(_, _, _)
inclusion_test(S, found, ckey_iter) ==
    IF ckey_iter = NULL THEN 1
    ELSE IF Set_contains(S, found[ckey_iter].lhs) THEN 0
    ELSE inclusion_test(S, found, Q_next(found, ckey_iter))

\* end of file: main calls print_all_candidate_keys, which reduces the full
\* set to the first key, prints it and queues it
Call ==
    /\ pc = "main"
    /\ LET attribs == Set_full(n_attribs)
           ckey    == candidate_key_from_super_key(attribs, q, n_attribs)
           qkey    == QKey(ckey, NoSet)
       IN  /\ out' = Append(out, Set_print(ckey))
           /\ ckeys' = Q_insert(Q_init, qkey)
           /\ work' = Q_insert(Q_init, qkey)
    /\ pc' = "while"
    /\ UNCHANGED <<n_attribs, q, key, iter, arg, res>>

\* while (work.size != 0): pop the next key and start over the dependencies
Pop ==
    /\ pc = "while"
    /\ Len(work) # 0
    /\ LET p == Q_pop(work)
       IN  /\ key' = p.key
           /\ work' = p.queue
    /\ iter' = Q_iterator(q)
    /\ pc' = IF Q_iterator(q) = NULL THEN "while" ELSE "fds"
    /\ UNCHANGED <<n_attribs, q, ckeys, out, arg, res>>

\* one round of while (iter): the seed of one dependency
Expand ==
    /\ pc = "fds"
    /\ iter # NULL
    /\ LET s_left  == q[iter].lhs
           s_right == q[iter].rhs
           diff    == Set_difference(key.lhs, s_right)
           S       == Set_union(s_left, diff)
           test    == inclusion_test(S, ckeys, Q_iterator(ckeys))
       IN  IF test = 1
           THEN LET ckey == candidate_key_from_super_key(S, q, n_attribs)
                    qkey == QKey(ckey, NoSet)
                IN  /\ ckeys' = Q_insert(ckeys, qkey)
                    /\ work' = Q_insert(work, qkey)
                    /\ out' = Append(out, Set_print(ckey))
           ELSE UNCHANGED <<ckeys, work, out>>
    /\ iter' = Q_next(q, iter)
    /\ pc' = IF Q_next(q, iter) = NULL THEN "while" ELSE "fds"
    /\ UNCHANGED <<n_attribs, q, key, arg, res>>

\* the work queue is empty: the number of keys is printed
Report ==
    /\ pc = "while"
    /\ Len(work) = 0
    /\ out' = Append(out, <<Len(ckeys)>>)
    /\ pc' = "cleanup"
    /\ UNCHANGED <<n_attribs, q, ckeys, work, key, iter, arg, res>>

\* both queues are freed and print_all_candidate_keys returns
Cleanup ==
    /\ pc = "cleanup"
    /\ ckeys' = Q_free(ckeys)
    /\ work' = Q_free(work)
    /\ pc' = "done"
    /\ UNCHANGED <<n_attribs, q, key, iter, out, arg, res>>

Next == ReadLine \/ Call \/ Pop \/ Expand \/ Report \/ Cleanup

Spec == Init /\ [][Next]_vars

\* ------------------------------------------------------------ direct calls
\* The functions called directly on a parsed dependency queue with a Set s
\* over the universe, as main's callers of the closure query do.

\* every dependency queue main can have built within the bounds
RECURSIVE DepQueues(_, _)
DepQueues(n, letters) ==
    {<<>>} \cup
    UNION {{<<d>> \o rest :
                rest \in DepQueues(n, letters - (d.lhs.size + d.rhs.size))} :
           d \in {QKey(l, r) : l \in Sides(n), r \in Sides(n)} \cap
                 {x \in [lhs : Sides(n), rhs : Sides(n)] :
                      x.lhs.size + x.rhs.size <= letters}}

InitCalls ==
    /\ pc = "query"
    /\ n_attribs \in 1 .. MaxAttribs
    /\ q \in DepQueues(n_attribs, MaxLetters)
    /\ arg \in {MkSet(u) : u \in SUBSET Universe(n_attribs)}
    /\ res = NoResult
    /\ ckeys = <<>>
    /\ work = <<>>
    /\ key = QKey(NoSet, NoSet)
    /\ iter = NULL
    /\ out = <<>>

\* closure = compute_closure(&arg, &q, n_attribs)
CallClosure ==
    /\ pc = "query"
    /\ res.op = "none"
    /\ res' = Result("compute_closure", arg, NoSet,
                     compute_closure(arg, q, n_attribs))
    /\ UNCHANGED <<pc, n_attribs, q, ckeys, work, key, iter, out, arg>>

\* compute_closure called again on the closure it returned
CallClosureAgain ==
    /\ pc = "query"
    /\ res.op = "compute_closure"
    /\ res' = Result("closure_again", res.val, res.val,
                     compute_closure(res.val, q, n_attribs))
    /\ UNCHANGED <<pc, n_attribs, q, ckeys, work, key, iter, out, arg>>

\* compute_closure called next on a Set that contains arg
CallClosureSuperset ==
    /\ pc = "query"
    /\ res.op = "compute_closure"
    /\ \E u \in SUBSET Universe(n_attribs) :
           /\ arg.set \subseteq u
           /\ res' = Result("closure_superset", MkSet(u), res.val,
                            compute_closure(MkSet(u), q, n_attribs))
    /\ UNCHANGED <<pc, n_attribs, q, ckeys, work, key, iter, out, arg>>

\* is_superkey(&arg, &q, n_attribs)
CallIsSuperkey ==
    /\ pc = "query"
    /\ res.op = "none"
    /\ res' = Result("is_superkey", arg, NoSet, is_superkey(arg, q, n_attribs))
    /\ UNCHANGED <<pc, n_attribs, q, ckeys, work, key, iter, out, arg>>

\* candidate_key_from_super_key(&arg, &q, n_attribs), arg being a superkey
CallCandidateKey ==
    /\ pc = "query"
    /\ res.op = "none"
    /\ Set_is_full(compute_closure(arg, q, n_attribs), n_attribs)
    /\ res' = Result("candidate_key", arg, NoSet,
                     candidate_key_from_super_key(arg, q, n_attribs))
    /\ UNCHANGED <<pc, n_attribs, q, ckeys, work, key, iter, out, arg>>

NextCalls ==
    \/ CallClosure
    \/ CallClosureAgain
    \/ CallClosureSuperset
    \/ CallIsSuperkey
    \/ CallCandidateKey

SpecCalls == InitCalls /\ [][NextCalls]_vars

\* ------------------------------------------------------------- definitions
\* used by the properties: the closure as the theory defines it

Closed(X, deps) ==
    \A i \in 1 .. Len(deps) :
        deps[i].lhs.set \subseteq X => deps[i].rhs.set \subseteq X

\* the least subset of the universe that contains S and is closed
LeastClosed(S, deps, n) ==
    {a \in Universe(n) :
        \A X \in SUBSET Universe(n) :
            (S \subseteq X /\ Closed(X, deps)) => a \in X}

IsSuperkeySet(S, deps, n) == LeastClosed(S, deps, n) = Universe(n)

IsCandidateKeySet(K, deps, n) ==
    /\ IsSuperkeySet(K, deps, n)
    /\ \A P \in SUBSET K : P # K => ~IsSuperkeySet(P, deps, n)

\* the keys of the final list of print_all_candidate_keys, as bit patterns
Found == [i \in 1 .. Len(ckeys) |-> ckeys[i].lhs.set]

Finished == pc = "cleanup"

\* -------------------------------------------------------------- properties

\* C1: completeness: when print_all_candidate_keys has drained the work
\* queue, every subset T of the universe whose closure is the universe
\* contains a key of the final list.
C1_Complete ==
    Finished =>
        \A T \in SUBSET Universe(n_attribs) :
            IsSuperkeySet(T, q, n_attribs) =>
                \E i \in 1 .. Len(ckeys) : Found[i] \subseteq T

\* a run that ends with two keys and a superkey that is none of them
C1_Witness ==
    /\ Finished
    /\ Len(ckeys) >= 2
    /\ \E T \in SUBSET Universe(n_attribs) :
           /\ IsSuperkeySet(T, q, n_attribs)
           /\ \A i \in 1 .. Len(ckeys) : Found[i] # T

\* C2: every key of the final list is a superkey, and neither the removal
\* of one attribute nor any proper subset of it is a superkey.
C2_KeysMinimal ==
    Finished =>
        \A i \in 1 .. Len(ckeys) :
            /\ IsSuperkeySet(Found[i], q, n_attribs)
            /\ \A a \in Found[i] : ~IsSuperkeySet(Found[i] \ {a}, q, n_attribs)
            /\ IsCandidateKeySet(Found[i], q, n_attribs)
            /\ ckeys[i].lhs.size = Cardinality(Found[i])

\* a run that ends with a key of two attributes that is not the universe
C2_Witness ==
    /\ Finished
    /\ \E i \in 1 .. Len(ckeys) :
           Cardinality(Found[i]) = 2 /\ Found[i] # Universe(n_attribs)

\* C3: the final list is an antichain: of two entries at distinct places
\* neither is a subset of the other.
C3_Antichain ==
    Finished =>
        \A i, j \in 1 .. Len(ckeys) :
            i # j => ~(Found[i] \subseteq Found[j])

\* a run that ends with two keys of two attributes each
C3_Witness ==
    /\ Finished
    /\ Len(ckeys) = 2
    /\ Cardinality(Found[1]) = 2
    /\ Cardinality(Found[2]) = 2

\* C4: the list of keys never holds the same bit pattern twice, at any
\* moment of the search, so no Q_insert adds a key that is already there.
C4_NoDuplicate ==
    \A i, j \in 1 .. Len(ckeys) : i # j => Found[i] # Found[j]

\* a seed passed the test and its key was inserted next to the first key
C4_Witness ==
    /\ pc \in {"while", "fds"}
    /\ Len(ckeys) >= 2
    /\ Len(work) >= 1
    /\ work[Len(work)] = ckeys[Len(ckeys)]

\* C5: is_superkey returns true exactly when the closure computed by
\* compute_closure is full.
C5_SuperkeyAgreesWithClosure ==
    res.op = "is_superkey" =>
        ((res.val = 1) <=>
             Set_is_full(compute_closure(arg, q, n_attribs), n_attribs))

\* C6: compute_closure returns the least subset of the universe that
\* contains the seed and is closed under every dependency, with its size
\* field equal to the number of its bits, early exit or not.
C6_LeastFixpoint ==
    res.op = "compute_closure" =>
        /\ res.val.set = LeastClosed(arg.set, q, n_attribs)
        /\ res.val.size = Cardinality(res.val.set)

\* the closure of {A} under B->C, A->B: the second pass ends by the early exit
C6_Witness ==
    /\ res.op = "compute_closure"
    /\ n_attribs = 3
    /\ arg.set = {0}
    /\ q = <<QKey(MkSet({1}), MkSet({2})), QKey(MkSet({0}), MkSet({1}))>>
    /\ res.val.set = {0, 1, 2}

\* C7: the closure of a closure has the bit pattern of that closure.
C7_Idempotent ==
    res.op = "closure_again" => res.val.set = res.prev.set

\* the second call was made on a closure that is larger than the seed and
\* not full
C7_Witness ==
    /\ res.op = "closure_again"
    /\ res.prev.set # arg.set
    /\ res.prev.set # Universe(n_attribs)

\* C8: for S1 a subset of S2, the closure of S1 is a subset of the closure
\* of S2.
C8_Monotone ==
    res.op = "closure_superset" => res.prev.set \subseteq res.val.set

\* S2 is a proper superset of S1 and both closures grew, to different sets
C8_Witness ==
    /\ res.op = "closure_superset"
    /\ res.in.set # arg.set
    /\ res.prev.set # arg.set
    /\ res.val.set # res.in.set
    /\ res.val.set # res.prev.set

\* C9: for a superkey K, candidate_key_from_super_key returns a subset R
\* of K whose closure is the universe and no proper subset of which is a
\* superkey.
C9_ReducerMinimal ==
    res.op = "candidate_key" =>
        /\ res.val.set \subseteq arg.set
        /\ IsSuperkeySet(res.val.set, q, n_attribs)
        /\ \A P \in SUBSET res.val.set :
               P # res.val.set => ~IsSuperkeySet(P, q, n_attribs)
        /\ res.val.size = Cardinality(res.val.set)

\* an attribute was removed from K, a larger one was kept and two remain
C9_Witness ==
    /\ res.op = "candidate_key"
    /\ Cardinality(res.val.set) >= 2
    /\ \E a \in arg.set \ res.val.set : \E b \in res.val.set : a < b

\* C10: print_all_candidate_keys terminates: the work queue drains and the
\* function returns.
C10_Terminates == <>(pc = "done")

\* the function returned after it printed two keys and their number
C10_Witness == pc = "done" /\ Len(out) >= 3 /\ work = <<>>

\* the program is sequential: it always takes its next step
FairSpec == Spec /\ WF_vars(Next)

\* ------------------------------------------- the same lines in another order
\* the orders in which the lines of a file can be written
LineOrders(deps) ==
    {[i \in 1 .. Len(deps) |-> deps[p[i]]] :
        p \in {f \in [1 .. Len(deps) -> 1 .. Len(deps)] :
                  \A i, j \in 1 .. Len(deps) : f[i] = f[j] => i = j}}

\* main, first run: one more line is read
ReadLineFirst == res.op = "none" /\ ReadLine

\* main, second run: the program is started again on a file that holds the
\* same lines in another order; the output of the first run is kept in res
RunPermuted ==
    /\ pc = "done"
    /\ res.op = "none"
    /\ \E deps \in LineOrders(q) : q' = deps
    /\ res' = Result("first_run", q, NoSet, out)
    /\ pc' = "main"
    /\ ckeys' = <<>>
    /\ work' = <<>>
    /\ key' = QKey(NoSet, NoSet)
    /\ iter' = NULL
    /\ out' = <<>>
    /\ UNCHANGED <<n_attribs, arg>>

\* main, first run: end of file
CallFirst == res.op = "none" /\ Call

\* main, second run: end of file
CallSecond == res.op = "first_run" /\ Call

NextPermute ==
    \/ ReadLineFirst
    \/ CallFirst
    \/ RunPermuted
    \/ CallSecond
    \/ Pop
    \/ Expand
    \/ Report
    \/ Cleanup

SpecPermute == Init /\ [][NextPermute]_vars

\* the keys printed by a run, as a set of attribute sets
KeysPrinted(o) ==
    {{o[i][j] : j \in 1 .. Len(o[i])} : i \in 1 .. (Len(o) - 1)}

\* C11: the set of candidate keys printed for a dependency list is the same
\* for every order of the lines: a second run on a permutation of the lines
\* prints the same keys and the same number of keys as the first run.
C11_OrderIndependent ==
    (pc = "done" /\ res.op = "first_run")
        => /\ KeysPrinted(out) = KeysPrinted(res.val)
           /\ out[Len(out)] = res.val[Len(res.val)]

\* the second run read two lines in the other order and printed two keys
C11_Witness ==
    /\ pc = "done"
    /\ res.op = "first_run"
    /\ q # res.in
    /\ Cardinality(KeysPrinted(out)) >= 2

\* ------------------------------------------------------- the sample inputs
\* the line "lhs -> rhs" as main queues it
Dep(lhs, rhs) == QKey(MkSet(lhs), MkSet(rhs))

\* README.md: 9 attributes A..I (0..8) and the six lines of the sample file
README_n_attribs == 9

README_Lines ==
    << Dep({0}, {1, 2}),
       Dep({1}, {3, 4}),
       Dep({2}, {5, 6}),
       Dep({3, 6}, {7}),
       Dep({4, 5}, {8}),
       Dep({7, 8}, {0}) >>

\* the lines A -> B, B -> C, C -> A, for a file whose first line is 3
Cycle_Lines == << Dep({0}, {1}), Dep({1}, {2}), Dep({2}, {0}) >>

\* main has read the whole file: the README sample, the cycle, or a file
\* with no dependency line for any number of attributes main accepts
InitSamples ==
    /\ pc = "main"
    /\ \/ n_attribs = README_n_attribs /\ q = README_Lines
       \/ n_attribs = 3 /\ q = Cycle_Lines
       \/ n_attribs \in 1 .. MAX_ATTRIBS /\ q = Q_init
    /\ ckeys = <<>>
    /\ work = <<>>
    /\ key = QKey(NoSet, NoSet)
    /\ iter = NULL
    /\ out = <<>>
    /\ arg = NoSet
    /\ res = NoResult

NextSamples == Call \/ Pop \/ Expand \/ Report \/ Cleanup

SpecSamples == InitSamples /\ [][NextSamples]_vars

IsReadme == n_attribs = README_n_attribs /\ q = README_Lines

IsCycle == n_attribs = 3 /\ q = Cycle_Lines

\* C12 as stated: on the README input the program finds exactly 12 keys, each
\* of at least two attributes, none containing another.
C12_ReadmeKeysSizeTwo ==
    (Finished /\ IsReadme)
        => /\ Len(ckeys) = 12
           /\ \A i \in 1 .. 12 : Cardinality(Found[i]) >= 2
           /\ \A i, j \in 1 .. 12 : i # j => ~(Found[i] \subseteq Found[j])

\* C12 amended: on the README input the program finds exactly 12 keys, none
\* containing another; one of them is the single attribute A and the other
\* eleven have at least two attributes.
C12_ReadmeKeys ==
    (Finished /\ IsReadme)
        => /\ Len(ckeys) = 12
           /\ \A i, j \in 1 .. 12 : i # j => ~(Found[i] \subseteq Found[j])
           /\ \E i \in 1 .. 12 :
                  /\ Found[i] = {0}
                  /\ \A j \in 1 .. 12 : j # i => Cardinality(Found[j]) >= 2

\* the run on the README input ended and printed its count
C12_Witness == Finished /\ IsReadme /\ out[Len(out)] = <<12>>

\* C13: on the README input the keys are printed in the order H I, D G I,
\* E F H, B G I, C D I, D E F G, B F H, C E H, A, B C, B F G, C D E, followed
\* by the count 12.
C13_ReadmeOrder ==
    (Finished /\ IsReadme)
        => out = << <<7, 8>>, <<3, 6, 8>>, <<4, 5, 7>>, <<1, 6, 8>>,
                    <<2, 3, 8>>, <<3, 4, 5, 6>>, <<1, 5, 7>>, <<2, 4, 7>>,
                    <<0>>, <<1, 2>>, <<1, 5, 6>>, <<2, 3, 4>>, <<12>> >>

\* the run on the README input returned after it printed thirteen lines
C13_Witness == pc = "done" /\ IsReadme /\ Len(out) = 13

\* C14: for A -> B, B -> C, C -> A over three attributes the keys are exactly
\* {A}, {B} and {C}.
C14_CycleKeys ==
    (Finished /\ IsCycle)
        => /\ Len(ckeys) = 3
           /\ {Found[i] : i \in 1 .. Len(ckeys)} = {{0}, {1}, {2}}
           /\ out[Len(out)] = <<3>>

\* the run on the cycle ended with three lines and the count printed
C14_Witness == Finished /\ IsCycle /\ Len(out) = 4

\* C15: with no dependency line the program reports exactly one key, the set
\* of all n_attribs attributes, for every n_attribs in 1..26.
C15_NoLines ==
    (Finished /\ q = Q_init)
        => /\ Len(ckeys) = 1
           /\ Found[1] = Universe(n_attribs)
           /\ out = << [i \in 1 .. n_attribs |-> i - 1], <<1>> >>

\* the run with no line ended for the largest number of attributes
C15_Witness ==
    Finished /\ q = Q_init /\ n_attribs = MAX_ATTRIBS /\ Len(out) = 2

\* ------------------------------------------------- calls on one Set of set.c
\* the attribute arguments tried: ids inside the universe, the first ids
\* outside it, the last id the bitmask uses and the first id it does not
AttribIds == (0 .. MaxAttribs) \cup {MAX_ATTRIBS - 1, MAX_ATTRIBS}

\* the Set is in arg; res holds the last call (op), its argument or the Set
\* at the start of the pass (in), the Set before the call or the positions of
\* the pass drained just before (prev) and what the call returned (val); out
\* holds the positions returned in the current pass of Set_next_pos
InitSet ==
    /\ pc = "calls"
    /\ n_attribs \in 1 .. MaxAttribs
    /\ q = Q_init
    /\ ckeys = <<>>
    /\ work = <<>>
    /\ key = QKey(NoSet, NoSet)
    /\ iter = NULL
    /\ out = <<>>
    /\ arg = Set_init
    /\ res = NoResult

CallSetInit ==
    /\ pc = "calls"
    /\ arg' = Set_init
    /\ res' = Result("Set_init", NoSet, arg, 0)
    /\ out' = <<>>
    /\ UNCHANGED <<pc, n_attribs, q, ckeys, work, key, iter>>

CallSetClear ==
    /\ pc = "calls"
    /\ arg' = Set_clear
    /\ res' = Result("Set_clear", NoSet, arg, 0)
    /\ out' = <<>>
    /\ UNCHANGED <<pc, n_attribs, q, ckeys, work, key, iter>>

CallSetFull ==
    /\ pc = "calls"
    /\ arg' = Set_full(n_attribs)
    /\ res' = Result("Set_full", NoSet, arg, 0)
    /\ out' = <<>>
    /\ UNCHANGED <<pc, n_attribs, q, ckeys, work, key, iter>>

\* Set_copy(&s, &s): the bits and the size stay, cursor and count are reset
CallSetCopy ==
    /\ pc = "calls"
    /\ arg' = Set_copy(arg)
    /\ res' = Result("Set_copy", NoSet, arg, 0)
    /\ out' = <<>>
    /\ UNCHANGED <<pc, n_attribs, q, ckeys, work, key, iter>>

\* Set_insert(&s, i). When an assert line is false the build decides: the
\* debug build aborts before the Set is touched, the release build (-DNDEBUG)
\* has no assert lines and runs the rest of the function. The calls after a
\* false assert line are not followed.
CallSetInsert ==
    /\ pc = "calls"
    /\ \E i \in AttribIds :
           /\ res' = Result("Set_insert", i, arg, 0)
           /\ IF Set_insert_asserted(arg, i)
              THEN arg' = Set_insert(arg, i) /\ pc' = "calls"
              ELSE \/ arg' = arg /\ pc' = "abort"
                   \/ arg' = Set_insert(arg, i) /\ pc' = "past_assert"
    /\ out' = <<>>
    /\ UNCHANGED <<n_attribs, q, ckeys, work, key, iter>>

\* Set_remove(&s, i), with the same two builds
CallSetRemove ==
    /\ pc = "calls"
    /\ \E i \in AttribIds :
           /\ res' = Result("Set_remove", i, arg, 0)
           /\ IF Set_remove_asserted(arg, i)
              THEN arg' = Set_remove(arg, i) /\ pc' = "calls"
              ELSE \/ arg' = arg /\ pc' = "abort"
                   \/ arg' = Set_remove(arg, i) /\ pc' = "past_assert"
    /\ out' = <<>>
    /\ UNCHANGED <<n_attribs, q, ckeys, work, key, iter>>

\* the characters of a side of a line: the letters up to the first one outside
\* the largest universe, the blank and the comma
Chars == (0 .. MaxAttribs) \cup {Blank, Comma}

\* the sides of a line tried, as strings of at most MaxSideLen characters
AttribLists == UNION {[1 .. l -> Chars] : l \in 1 .. MaxSideLen}

\* parse_attrib_list(attrib_list, n_attribs, &save_attrib, &s) on the Set as
\* declared; the function begins with Set_init(&s), so what was done to the
\* Set before does not matter. prev holds the indices it passed to
\* Set_insert, val its return value
CallParseAttribList ==
    /\ pc = "calls"
    /\ res.op = "none"
    /\ \E attrib_list \in AttribLists :
           LET r == parse_attrib_list(attrib_list, n_attribs)
           IN  /\ arg' = r.attribs
               /\ res' = Result("parse_attrib_list", attrib_list, r.calls,
                                r.ierr)
    /\ out' = <<>>
    /\ UNCHANGED <<pc, n_attribs, q, ckeys, work, key, iter>>

\* Set_next_pos(&s): a call made with cursor = count = 0 begins a pass
CallSetNextPos ==
    /\ pc = "calls"
    /\ LET np    == Set_next_pos(arg)
           begin == arg.cursor = 0 /\ arg.count = 0
           again == res.op = "Set_next_pos"
       IN  /\ arg' = np.s
           /\ out' = IF begin THEN <<np.pos>> ELSE Append(out, np.pos)
           /\ res' = Result("Set_next_pos",
                            IF begin \/ ~again THEN arg ELSE res.in,
                            IF ~again THEN <<>>
                            ELSE IF begin THEN out ELSE res.prev,
                            np.pos)
    /\ UNCHANGED <<pc, n_attribs, q, ckeys, work, key, iter>>

NextSet ==
    \/ CallSetInit
    \/ CallSetClear
    \/ CallSetFull
    \/ CallSetCopy
    \/ CallSetInsert
    \/ CallSetRemove
    \/ CallParseAttribList
    \/ CallSetNextPos

SpecSet == InitSet /\ [][NextSet]_vars

Range(f) == {f[x] : x \in DOMAIN f}

\* the members of a set in ascending order
RECURSIVE Ascending(_)
Ascending(S) ==
    IF S = {} THEN <<>>
    ELSE LET m == CHOOSE x \in S : \A y \in S : x <= y
         IN  <<m>> \o Ascending(S \ {m})

\* the last call was a Set_next_pos of a pass begun with cursor = count = 0
InPass ==
    /\ pc = "calls"
    /\ res.op = "Set_next_pos"
    /\ res.in.cursor = 0
    /\ res.in.count = 0

\* the last call began a pass right after a call that had ended one
AfterDrain == InPass /\ res.prev # <<>> /\ Len(out) = 1

\* C16: on a set of k >= 1 members with cursor = count = 0, consecutive calls
\* of Set_next_pos return the members once each in ascending order; cursor
\* and count are back at 0 exactly after the k-th call, and the pass that
\* follows at once returns the same sequence.
C16_FullPass ==
    (InPass /\ res.in.size >= 1)
        => /\ arg.set = res.in.set /\ arg.size = res.in.size
           /\ Len(out) <= res.in.size
           /\ out = SubSeq(Ascending(res.in.set), 1, Len(out))
           /\ (arg.cursor = 0 /\ arg.count = 0) <=> Len(out) = res.in.size
           /\ (Len(out) = res.in.size /\ res.prev # <<>>) => out = res.prev

\* a second pass over three members, not all adjacent, has just ended
C16_Witness ==
    /\ InPass
    /\ res.in.size = 3
    /\ Len(out) = 3
    /\ res.prev = out
    /\ MAX_ATTRIBS - 1 \in arg.set

\* C17 as stated: once every member has been returned since the last reset,
\* the next call of Set_next_pos returns INVALID_ATTRIB.
C17_SentinelAfterPass == AfterDrain => res.val = INVALID_ATTRIB

\* C17 amended: Set_next_pos returns INVALID_ATTRIB exactly when the set is
\* empty; the call that returns the last member of a pass has already reset
\* cursor and count, so the call after a drained pass over a non-empty set
\* returns the smallest member again.
C17_Exhaustion ==
    InPass
        => /\ res.val = INVALID_ATTRIB <=> res.in.set = {}
           /\ (AfterDrain /\ res.in.set # {})
                  => /\ res.val = Ascending(res.in.set)[1]
                     /\ res.prev = Ascending(res.in.set)

\* a pass over two members was drained and the next call returned the
\* smaller member again
C17_Witness ==
    /\ AfterDrain
    /\ res.in.size = 2
    /\ Len(res.prev) = 2
    /\ res.val = res.prev[1]

\* C18 as stated: Set_insert and Set_remove called on a set whose cursor is
\* not 0 always fail, whatever the attribute, and leave the bits and the size
\* of the set unchanged.
C18_MutatorsFailMidPass ==
    (res.op \in {"Set_insert", "Set_remove"} /\ res.prev.cursor # 0)
        => /\ pc = "abort"
           /\ arg.set = res.prev.set
           /\ arg.size = res.prev.size

\* C19 as stated: Set_remove(s, i) with i not in s, or with i outside the
\* attribute range, fails and neither toggles bit i nor decrements the size.
C19_RemoveAbsentFails ==
    (res.op = "Set_remove"
         /\ (res.in \notin res.prev.set \/ res.in >= MAX_ATTRIBS))
        => /\ pc = "abort"
           /\ (res.in \in arg.set) <=> (res.in \in res.prev.set)
           /\ arg.size = res.prev.size

\* C20 as stated: Set_insert and Set_remove called with an attribute id >=
\* n_attribs fail, and the id is never accepted into the set.
C20_MutatorsRejectIds ==
    (res.op \in {"Set_insert", "Set_remove"} /\ res.in >= n_attribs)
        => /\ pc = "abort"
           /\ res.in \notin arg.set

\* C20 amended: Set_insert does not know n_attribs and accepts every id
\* below MAX_ATTRIBS on a set whose cursor is 0; an id >= n_attribs of the
\* input never reaches it, because parse_attrib_list returns 1 at the first
\* token whose letter is outside A .. 'A' + n_attribs - 1 and passes only
\* indices below n_attribs to Set_insert.
C20_IdsCheckedByParser ==
    /\ (res.op = "Set_insert" /\ Set_insert_asserted(res.prev, res.in))
           => pc = "calls" /\ res.in \in arg.set
    /\ res.op = "parse_attrib_list"
           => /\ \A k \in 1 .. Len(res.prev) : res.prev[k] < n_attribs
              /\ arg.set = {res.prev[k] : k \in 1 .. Len(res.prev)}
              /\ arg.set \subseteq Universe(n_attribs)
              /\ res.val = 1 <=>
                     \E token \in Range(strtok_r(res.in, DELIM, 1, <<>>, <<>>)) :
                         first_letter(token, 1) \notin Universe(n_attribs)

\* parse_attrib_list inserted the letter of the first token and returned 1
\* at the second, whose letter is the first one outside the universe
C20_Witness ==
    /\ res.op = "parse_attrib_list"
    /\ res.val = 1
    /\ Len(res.prev) = 1
    /\ LET tokens == strtok_r(res.in, DELIM, 1, <<>>, <<>>)
       IN  Len(tokens) = 2 /\ first_letter(tokens[2], 1) = n_attribs

\* ------------------------------------- the search loop, state by state
\* the Sets held by the variables of print_all_candidate_keys and main
SetsInUse ==
    {q[i].lhs : i \in 1 .. Len(q)} \cup {q[i].rhs : i \in 1 .. Len(q)}
        \cup {ckeys[i].lhs : i \in 1 .. Len(ckeys)}
        \cup {work[i].lhs : i \in 1 .. Len(work)}
        \cup {key.lhs}

\* the locals of the round of while (iter) about to run: diff, S, and for a
\* seed that passes the test the closure of S and the reduced key
diff_now == Set_difference(key.lhs, q[iter].rhs)

S_now == Set_union(q[iter].lhs, diff_now)

SetsOfRound ==
    IF pc = "fds" /\ iter # NULL
    THEN {diff_now, S_now}
             \cup (IF inclusion_test(S_now, ckeys, Q_iterator(ckeys)) = 1
                   THEN {compute_closure(S_now, q, n_attribs),
                         candidate_key_from_super_key(S_now, q, n_attribs)}
                   ELSE {})
    ELSE {}

\* C21: in every state of a run every Set in use (dependency sides, popped
\* key, diff, seed, closure and reduced key, the keys found and the keys left
\* to expand) holds only ids below n_attribs, so Set_is_full(s, n_attribs)
\* is true exactly when s is the full universe.
C21_UniverseInvariant ==
    \A s \in SetsInUse \cup SetsOfRound :
        /\ s.set \subseteq Universe(n_attribs)
        /\ Set_is_full(s, n_attribs) <=> s.set = Universe(n_attribs)

\* a round is about to run on a seed that is not the popped key and passes
\* the test, so that it is closed and reduced
C21_Witness ==
    /\ pc = "fds"
    /\ iter # NULL
    /\ S_now.set # key.lhs.set
    /\ inclusion_test(S_now, ckeys, Q_iterator(ckeys)) = 1
    /\ Cardinality(SetsOfRound) >= 3

\* the runs on the files of at most MaxLetters letters and the runs on the
\* README sample and on the cycle
InitSearch == Init \/ (InitSamples /\ q # Q_init)

SpecSearch == InitSearch /\ [][Next]_vars

\* a round of while (iter) called candidate_key_from_super_key: it is the
\* only step of the loop that adds a key to ckeys
Reduced == pc = "fds" /\ Len(ckeys') = Len(ckeys) + 1

\* C22: whenever the search loop calls candidate_key_from_super_key on a seed
\* S, no key found so far is a subset of S, the keys found earlier in the
\* rounds of the same popped key included.
C22_TestedBeforeReduced ==
    [][Reduced => \A i \in 1 .. Len(ckeys) : ~(Found[i] \subseteq S_now.set)]_vars

\* the popped key is the first key, a second key was found in an earlier
\* round of the same pop, and the seed of the round about to run passes the
\* test against both, so that it is reduced
C22_Witness ==
    /\ pc = "fds"
    /\ iter # NULL
    /\ Len(ckeys) = 2
    /\ key.lhs = ckeys[1].lhs
    /\ inclusion_test(S_now, ckeys, Q_iterator(ckeys)) = 1

\* ------------------------------------------- the calls made by the core
\* Set_print, the for loop: the Set the caller holds when it returns
RECURSIVE Set_print_for(_, _)
Set_print_for(s, i) ==
    IF i >= s.size THEN s
    ELSE ByValue(LAMBDA np : Set_print_for(np.s, i + 1), Set_next_pos(s))

\* candidate_key_from_super_key, the for loop: the assert lines of every
\* Set_remove it calls hold, and skey is left with its pass drained
RECURSIVE ckey_for_asserted(_, _, _, _, _)
ckey_for_asserted(skey, ckey, i, deps, n) ==
    IF i >= skey.size THEN skey.cursor = 0 /\ skey.count = 0
    ELSE ByValue(LAMBDA np :
                     /\ Set_remove_asserted(Set_copy(ckey), np.pos)
                     /\ ckey_for_asserted(np.s,
                                          ckey_for_body(ckey, np.pos, deps, n),
                                          i + 1, deps, n),
                 Set_next_pos(skey))

\* one call of the reducer on skey followed by Set_print of its result
reduce_asserted(skey, deps, n) ==
    /\ skey.cursor = 0
    /\ ckey_for_asserted(skey, Set_copy(skey), 0, deps, n)
    /\ ByValue(LAMBDA ckey :
                   /\ ckey.cursor = 0
                   /\ Set_print_for(ckey, 0) = ckey,
               candidate_key_from_super_key(skey, deps, n))

\* the calls of the step about to run respect the protocol of set.c
StepAsserted ==
    /\ pc = "main" => reduce_asserted(Set_full(n_attribs), q, n_attribs)
    /\ (pc = "fds" /\ iter # NULL
            /\ inclusion_test(S_now, ckeys, Q_iterator(ckeys)) = 1)
           => reduce_asserted(S_now, q, n_attribs)
    /\ \A s \in SetsInUse : s.cursor = 0 /\ s.count = 0

\* Q_pop has run: the work queue lost its tail node
Popped == pc = "while" /\ Len(work') < Len(work)

\* C25: in every run of print_all_candidate_keys on valid input every
\* Set_remove is called with a valid attribute that is present in a Set
\* whose cursor is 0, every Set the reducer or Set_print enumerates is
\* left with its pass drained (cursor and count 0) and no Set in use is
\* in the middle of a pass, and Q_pop is called only on a work queue that
\* holds a key: the assert lines of Set_remove and Q_pop never fail.
C25_NoProtocolViolation ==
    []StepAsserted /\ [][Popped => work # Q_init /\ Len(work) > 0]_vars

\* a seed of three attributes passes the test and is about to be reduced to
\* a smaller key, so that a Set_remove of the reducer is kept
C25_Witness ==
    /\ pc = "fds"
    /\ iter # NULL
    /\ inclusion_test(S_now, ckeys, Q_iterator(ckeys)) = 1
    /\ S_now.size >= 3
    /\ candidate_key_from_super_key(S_now, q, n_attribs).size < S_now.size

\* C26: for every key popped from the work queue and every dependency
\* (lhs, rhs) the seed S = lhs \cup (key - rhs) is a superkey: the least
\* closed set that contains S is the whole universe, and compute_closure
\* of S is full, whether or not S goes on to the reducer.
C26_SeedIsSuperkey ==
    (pc = "fds" /\ iter # NULL) =>
        /\ key.lhs \in {ckeys[i].lhs : i \in 1 .. Len(ckeys)}
        /\ IsSuperkeySet(S_now.set, q, n_attribs)
        /\ Set_is_full(compute_closure(S_now, q, n_attribs), n_attribs)

\* a seed that is neither the popped key nor the universe passes the test
C26_Witness ==
    /\ pc = "fds"
    /\ iter # NULL
    /\ S_now.set # key.lhs.set
    /\ S_now.set # Universe(n_attribs)
    /\ ~(q[iter].lhs.set \subseteq key.lhs.set)
    /\ inclusion_test(S_now, ckeys, Q_iterator(ckeys)) = 1

\* the keys left to expand, as bit patterns
Pending == [i \in 1 .. Len(work) |-> work[i].lhs.set]

\* the search loop is running or has just ended
InSearch == pc \in {"while", "fds", "cleanup"}

WorklistInv ==
    InSearch =>
        /\ \A i \in 1 .. Len(ckeys) :
               IsCandidateKeySet(Found[i], q, n_attribs)
        /\ \A i, j \in 1 .. Len(ckeys) :
               i # j => ~(Found[i] \subseteq Found[j])
        /\ \A i \in 1 .. Len(work) :
               \E j \in 1 .. Len(ckeys) : work[i] = ckeys[j]
        /\ \A i, j \in 1 .. Len(work) : i # j => Pending[i] # Pending[j]
        /\ pc = "fds" => /\ \E j \in 1 .. Len(ckeys) : key = ckeys[j]
                         /\ \A i \in 1 .. Len(work) : work[i] # key
        /\ pc = "cleanup" =>
               /\ work = Q_init
               /\ out[Len(out)] = <<Len(ckeys)>>
               /\ Len(out) = Len(ckeys) + 1

\* a step of the search loop either inserts one new key into both queues,
\* or pops one key of the work queue, or leaves both queues alone
WorklistStep ==
    (InSearch /\ pc # "cleanup") =>
        \/ /\ Len(ckeys') = Len(ckeys) + 1
           /\ SubSeq(ckeys', 1, Len(ckeys)) = ckeys
           /\ work' = Q_insert(work, ckeys'[Len(ckeys')])
           /\ \A i \in 1 .. Len(ckeys) : ckeys[i] # ckeys'[Len(ckeys')]
        \/ /\ ckeys' = ckeys
           /\ Len(work') = Len(work) - 1
           /\ key' \in {work[i] : i \in 1 .. Len(work)}
           /\ \A i \in 1 .. Len(work') : work'[i] # key'
        \/ ckeys' = ckeys /\ work' = work

\* C27: in every state of the search loop Found is an antichain of
\* candidate keys and every key of Pending is in Found; every key enters
\* Found and Pending together, once, and leaves Pending by one pop, after
\* which it is not in Pending again; when the loop ends Pending is empty, so
\* the pops are as many as the keys, which is the number reported.
C27_WorklistInvariant ==
    /\ [](WorklistInv /\ (pc = "main" => ckeys = Q_init /\ work = Q_init))
    /\ [][WorklistStep]_vars

\* in the middle of the search two keys are found, one is popped and being
\* expanded and the other one is still pending
C27_Witness ==
    /\ pc = "fds"
    /\ Len(ckeys) = 2
    /\ Len(work) = 1
    /\ key = ckeys[1]
    /\ work[1] = ckeys[2]

\* --------------------------------------------- the linked list of queue.c
\* The Queue is modelled with its nodes: q holds head, tail, size and mem,
\* the nodes malloc has handed out and free has not taken back, by address.
\* out holds the sequence the model's Q_insert / Q_pop / Q_free (used in the
\* specifications above) make of the same calls; res holds the last call.
Addresses == 1 .. MaxNodes

Q_init_list == [head |-> NULL, tail |-> NULL, size |-> 0, mem |-> <<>>]

Q_iterator_list(queue) == queue.tail

\* faulty variant: the new node is linked in front of the tail
Q_insert_list_AtTail(queue, k, new_node) ==
    LET node == [next |-> NULL, key |-> k]
    IN  IF queue.head = NULL
        THEN [head |-> new_node, tail |-> new_node,
              size |-> queue.size + 1,
              mem |-> (new_node :> node) @@ queue.mem]
        ELSE [head |-> queue.head, tail |-> new_node,
              size |-> queue.size + 1,
              mem |-> (new_node :> [next |-> queue.tail, key |-> k])
                          @@ queue.mem]

\* Q_insert with the address malloc returned
Q_insert_list(queue, k, new_node) ==
    LET node == [next |-> NULL, key |-> k]
    IN  IF queue.head = NULL
        THEN [head |-> new_node, tail |-> new_node,
              size |-> queue.size + 1,
              mem |-> (new_node :> node) @@ queue.mem]
        ELSE [head |-> new_node, tail |-> queue.tail,
              size |-> queue.size + 1,
              mem |-> (new_node :> node)
                          @@ [queue.mem EXCEPT ![queue.head].next = new_node]]

\* free(temp)
free(mem, temp) == [a \in (DOMAIN mem) \ {temp} |-> mem[a]]

\* the key returned and the Queue left
Q_pop_list(queue) ==
    LET temp == queue.tail
        next == queue.mem[temp].next
    IN  [key   |-> queue.mem[temp].key,
         queue |-> [head |-> IF next = NULL THEN NULL ELSE queue.head,
                    tail |-> next,
                    size |-> queue.size - 1,
                    mem  |-> free(queue.mem, temp)]]

\* the while loop of Q_free: every node from the tail on is freed
RECURSIVE Q_free_while(_)
Q_free_while(queue) ==
    IF queue.tail = NULL THEN queue
    ELSE Q_free_while([queue EXCEPT !.tail = queue.mem[queue.tail].next,
                                    !.mem = free(queue.mem, queue.tail)])

\* Q_free of queue.c: the members are reset after the loop
Q_free_list(queue) ==
    [Q_free_while(queue) EXCEPT !.head = NULL, !.tail = NULL, !.size = 0]

\* Q_free of the header-only queue.h: the loop only
Q_free_header(queue) == Q_free_while(queue)

\* the keys a Queue can hold here
QKeys == {QKey(s, NoSet) : s \in Sides(2)}

InitQueue ==
    /\ pc = "calls"
    /\ n_attribs = 2
    /\ q = Q_init_list
    /\ ckeys = <<>>
    /\ work = <<>>
    /\ key = QKey(NoSet, NoSet)
    /\ iter = NULL
    /\ out = Q_init
    /\ arg = NoSet
    /\ res = NoResult

\* Q_init on a Queue that holds nodes loses them: they stay allocated
CallQInit ==
    /\ pc = "calls"
    /\ q' = [Q_init_list EXCEPT !.mem = q.mem]
    /\ out' = Q_init
    /\ res' = Result("Q_init", NoSet, out, 0)
    /\ UNCHANGED <<pc, n_attribs, ckeys, work, key, iter, arg>>

\* malloc returns an address that is not in use
CallQInsert ==
    /\ pc = "calls"
    /\ \E k \in QKeys, new_node \in Addresses \ DOMAIN q.mem :
           /\ q' = Q_insert_list(q, k, new_node)
           /\ out' = Q_insert(out, k)
           /\ res' = Result("Q_insert", k, out, 0)
    /\ UNCHANGED <<pc, n_attribs, ckeys, work, key, iter, arg>>

\* Q_pop is called on a Queue that is not empty
CallQPop ==
    /\ pc = "calls"
    /\ q.size > 0
    /\ LET p == Q_pop_list(q)
       IN  /\ q' = p.queue
           /\ res' = Result("Q_pop", NoSet, out, p.key)
    /\ out' = Q_pop(out).queue
    /\ UNCHANGED <<pc, n_attribs, ckeys, work, key, iter, arg>>

\* Q_free as queue.c has it, or as the header-only queue.h has it; after the
\* latter head points to freed memory and the calls are not followed
CallQFree ==
    /\ pc = "calls"
    /\ \/ q' = Q_free_list(q) /\ pc' = "calls"
       \/ q' = Q_free_header(q) /\ pc' = "freed"
    /\ out' = Q_free(out)
    /\ res' = Result("Q_free", NoSet, out, 0)
    /\ UNCHANGED <<n_attribs, ckeys, work, key, iter, arg>>

NextQueue == CallQInit \/ CallQInsert \/ CallQPop \/ CallQFree

SpecQueue == InitQueue /\ [][NextQueue]_vars

\* the nodes met from p on by following next, at most fuel of them
RECURSIVE NodesFrom(_, _, _)
NodesFrom(mem, p, fuel) ==
    IF p = NULL \/ p \notin DOMAIN mem \/ fuel = 0 THEN <<>>
    ELSE <<p>> \o NodesFrom(mem, mem[p].next, fuel - 1)

\* the keys a loop "iter = Q_iterator(&q); while (iter) iter = iter->next"
\* visits
Traversal(queue) ==
    LET nodes == NodesFrom(queue.mem, Q_iterator_list(queue), MaxNodes + 1)
    IN  [i \in 1 .. Len(nodes) |-> queue.mem[nodes[i]].key]

\* the keys the same loop visits on the model's sequence
RECURSIVE TraversalSeq(_, _)
TraversalSeq(queue, it) ==
    IF it = NULL THEN <<>>
    ELSE <<queue[it]>> \o TraversalSeq(queue, Q_next(queue, it))

\* C23: the Queue is FIFO: after every sequence of Q_insert and Q_pop (on a
\* Queue that is not empty) the traversal from Q_iterator visits the keys
\* inserted and not yet popped from oldest to newest, each Q_pop returned
\* the oldest of them, and the list behaves as the sequence with append at
\* the end and removal at the front.
C23_QueueIsFifo ==
    pc = "calls"
        => /\ Traversal(q) = out
           /\ Traversal(q) = TraversalSeq(out, Q_iterator(out))
           /\ res.op = "Q_pop"
                  => /\ res.val = Head(res.prev)
                     /\ res.val = Q_pop(res.prev).key
                     /\ out = Tail(res.prev)
           /\ res.op = "Q_insert" => out = Append(res.prev, res.in)

\* a Q_pop returned the oldest of three keys and left two different keys
C23_Witness ==
    /\ pc = "calls"
    /\ res.op = "Q_pop"
    /\ Len(res.prev) = 3
    /\ res.prev[1] # res.prev[3]
    /\ out[1] # out[2]

\* C29 as stated: after every sequence of Q_init, Q_insert, Q_pop (on a
\* Queue that is not empty) and Q_free, size is the number of nodes reachable
\* from tail, head is the last of them, head = NULL iff tail = NULL iff
\* size = 0, and after Q_free the Queue is as Q_init leaves it.
C29_QueueStructure ==
    LET nodes == NodesFrom(q.mem, q.tail, MaxNodes + 1)
    IN  /\ q.size = Len(nodes)
        /\ q.size > 0 => q.head = nodes[Len(nodes)]
        /\ q.head = NULL <=> q.tail = NULL
        /\ q.tail = NULL <=> q.size = 0
        /\ res.op = "Q_free"
               => /\ q.head = Q_init_list.head
                  /\ q.tail = Q_init_list.tail
                  /\ q.size = Q_init_list.size

\* ------------------------------------------------- the lines main reads
\* the characters of a line: the letters up to the first one outside the
\* largest universe, blank, comma, '-' and '>'
LineChars == Chars \cup SEP

\* what fgets puts into line_buf: at most MaxLineLen characters, followed by
\* the newline unless the file ends without one
Lines ==
    UNION {{str, Append(str, Newline)} :
               str \in UNION {[1 .. l -> LineChars] : l \in 0 .. MaxLineLen}}
        \ {<<>>}

\* main: fgets reads one line; it is parsed and queued, or the program
\* exits with EXIT_FAILURE. res holds the line and what became of it
ReadLineChars ==
    /\ pc = "main"
    /\ q = Q_init
    /\ \E line_buf \in Lines :
           LET r == main_line(line_buf, n_attribs)
           IN  /\ res' = Result("fgets", line_buf, QKey(r.s_left, r.s_right),
                                IF r.exit THEN 1 ELSE 0)
               /\ IF r.exit
                  THEN pc' = "exit_failure" /\ q' = Q_free(q)
                  ELSE /\ pc' = "main"
                       /\ q' = Q_insert(q, QKey(r.s_left, r.s_right))
    /\ UNCHANGED <<n_attribs, ckeys, work, key, iter, out, arg>>

NextLines == ReadLineChars \/ Call \/ Pop \/ Expand \/ Report \/ Cleanup

SpecLines == Init /\ [][NextLines]_vars

\* the line holds '-' followed at once by '>'
HasSeparator(str) ==
    \E k \in 1 .. (Len(str) - 1) : str[k] = Minus /\ str[k + 1] = Greater

\* the characters before the first "->" and the characters after it
LeftOf(str) ==
    LET k == CHOOSE i \in 1 .. (Len(str) - 1) :
                 /\ str[i] = Minus /\ str[i + 1] = Greater
                 /\ \A j \in 1 .. (i - 1) :
                        ~(str[j] = Minus /\ str[j + 1] = Greater)
    IN  SubSeq(str, 1, k - 1)

RightOf(str) == SubSeq(str, Len(LeftOf(str)) + 3, Len(str))

HasLetter(str) == \E k \in 1 .. Len(str) : is_valid_attrib(str[k])

\* a line the parsing layer has to reject
Malformed(str) ==
    \/ ~HasSeparator(str)
    \/ ~HasLetter(LeftOf(str))
    \/ ~HasLetter(RightOf(str))

\* C24 as stated: every line that does not hold the two characters "->", or
\* whose left or right side holds no attribute letter, makes the program exit
\* with failure before print_all_candidate_keys is called; no such line is
\* queued as a dependency.
C24_MalformedRejected ==
    (res.op = "fgets" /\ Malformed(res.in))
        => pc = "exit_failure" /\ q = Q_init

\* ------------------------------------------------ calls on two Sets of set.c
\* Two Sets s and t, held in key.lhs and key.rhs, take the calls of set.c
\* whose assert lines hold; the Set returned by Set_union, Set_intersection
\* and Set_difference is held in arg, and Set_copy copies from any of the
\* three into s or t. res names the last call: its destination (in), its
\* source (prev) and its attribute (val).
SetNames == {"lhs", "rhs"}

InitOps ==
    /\ pc = "calls"
    /\ n_attribs \in 1 .. MaxAttribs
    /\ q = Q_init
    /\ ckeys = <<>>
    /\ work = <<>>
    /\ key = QKey(Set_init, Set_init)
    /\ iter = NULL
    /\ out = <<>>
    /\ arg = Set_init
    /\ res = NoResult

OpSetInit ==
    /\ pc = "calls"
    /\ \E s \in SetNames :
           /\ key' = [key EXCEPT ![s] = Set_init]
           /\ res' = Result("Set_init", s, s, 0)
    /\ UNCHANGED <<pc, n_attribs, q, ckeys, work, iter, out, arg>>

OpSetClear ==
    /\ pc = "calls"
    /\ \E s \in SetNames :
           /\ key' = [key EXCEPT ![s] = Set_clear]
           /\ res' = Result("Set_clear", s, s, 0)
    /\ UNCHANGED <<pc, n_attribs, q, ckeys, work, iter, out, arg>>

OpSetFull ==
    /\ pc = "calls"
    /\ n_attribs <= MAX_ATTRIBS
    /\ \E s \in SetNames :
           /\ key' = [key EXCEPT ![s] = Set_full(n_attribs)]
           /\ res' = Result("Set_full", s, s, 0)
    /\ UNCHANGED <<pc, n_attribs, q, ckeys, work, iter, out, arg>>

\* Set_copy(&s, &other), other being s itself, the other Set or the Set
\* returned last
OpSetCopy ==
    /\ pc = "calls"
    /\ \E s \in SetNames, other \in SetNames \cup {"arg"} :
           /\ key' = [key EXCEPT ![s] = Set_copy(IF other = "arg" THEN arg
                                                 ELSE key[other])]
           /\ res' = Result("Set_copy", s, other, 0)
    /\ UNCHANGED <<pc, n_attribs, q, ckeys, work, iter, out, arg>>

OpSetInsert ==
    /\ pc = "calls"
    /\ \E s \in SetNames, i \in Universe(n_attribs) :
           /\ Set_insert_asserted(key[s], i)
           /\ key' = [key EXCEPT ![s] = Set_insert(key[s], i)]
           /\ res' = Result("Set_insert", s, s, i)
    /\ UNCHANGED <<pc, n_attribs, q, ckeys, work, iter, out, arg>>

OpSetRemove ==
    /\ pc = "calls"
    /\ \E s \in SetNames, i \in Universe(n_attribs) :
           /\ Set_remove_asserted(key[s], i)
           /\ key' = [key EXCEPT ![s] = Set_remove(key[s], i)]
           /\ res' = Result("Set_remove", s, s, i)
    /\ UNCHANGED <<pc, n_attribs, q, ckeys, work, iter, out, arg>>

\* Set_next_pos(&s) puts s in the middle of a pass
OpSetNextPos ==
    /\ pc = "calls"
    /\ \E s \in SetNames :
           /\ key' = [key EXCEPT ![s] = Set_next_pos(key[s]).s]
           /\ res' = Result("Set_next_pos", s, s, Set_next_pos(key[s]).pos)
    /\ UNCHANGED <<pc, n_attribs, q, ckeys, work, iter, out, arg>>

OpSetUnion ==
    /\ pc = "calls"
    /\ \E s \in SetNames, t \in SetNames :
           /\ arg' = Set_union(key[s], key[t])
           /\ res' = Result("Set_union", s, t, 0)
    /\ UNCHANGED <<pc, n_attribs, q, ckeys, work, key, iter, out>>

OpSetIntersection ==
    /\ pc = "calls"
    /\ \E s \in SetNames, t \in SetNames :
           /\ arg' = Set_intersection(key[s], key[t])
           /\ res' = Result("Set_intersection", s, t, 0)
    /\ UNCHANGED <<pc, n_attribs, q, ckeys, work, key, iter, out>>

OpSetDifference ==
    /\ pc = "calls"
    /\ \E s \in SetNames, t \in SetNames :
           /\ arg' = Set_difference(key[s], key[t])
           /\ res' = Result("Set_difference", s, t, 0)
    /\ UNCHANGED <<pc, n_attribs, q, ckeys, work, key, iter, out>>

NextOps ==
    \/ OpSetInit
    \/ OpSetClear
    \/ OpSetFull
    \/ OpSetCopy
    \/ OpSetInsert
    \/ OpSetRemove
    \/ OpSetNextPos
    \/ OpSetUnion
    \/ OpSetIntersection
    \/ OpSetDifference

SpecOps == InitOps /\ [][NextOps]_vars

BinaryOps == {"Set_union", "Set_intersection", "Set_difference"}

MidPass(s) == s.cursor # 0 /\ s.count # 0

SizeConsistent ==
    /\ \A s \in {key.lhs, key.rhs, arg} : s.size = Cardinality(s.set)
    /\ res.op \in BinaryOps => arg.cursor = 0 /\ arg.count = 0
    /\ res.op = "Set_copy" =>
           key[res.in].cursor = 0 /\ key[res.in].count = 0

\* what a call leaves alone: Set_insert of an attribute already contained
\* leaves its Set as it is, the three binary functions leave both operands
\* as they are, Set_copy leaves its source as it is and takes its bits
OperandsKept ==
    /\ (res'.op = "Set_insert" /\ res'.val \in key[res'.in].set)
           => key' = key
    /\ res'.op \in BinaryOps => key' = key
    /\ res'.op = "Set_copy" =>
           /\ arg' = arg
           /\ \A s \in SetNames \ {res'.in} : key'[s] = key[s]
           /\ res'.prev \in SetNames =>
                  /\ key'[res'.in].set = key[res'.prev].set
                  /\ key'[res'.in].size = key[res'.prev].size
           /\ res'.prev = "arg" =>
                  /\ key'[res'.in].set = arg.set
                  /\ key'[res'.in].size = arg.size

\* C28: after every sequence of Set_init, Set_full, Set_copy, Set_clear,
\* Set_insert, Set_remove, Set_union, Set_intersection and Set_difference
\* (and Set_next_pos calls in between) whose assert lines hold, the size of
\* each Set is the number of its bits; Set_insert of an attribute already
\* contained changes nothing; the Set made by Set_union, Set_intersection,
\* Set_difference or Set_copy has cursor = count = 0 even when an operand is
\* in the middle of a pass, and the operands are left as they were.
C28_SizeConsistent == []SizeConsistent /\ [][OperandsKept]_vars

\* the union of two Sets that are both in the middle of a pass, one of them
\* a Set that lost an attribute, has just been made
C28_Witness ==
    /\ res.op = "Set_union"
    /\ res.in # res.prev
    /\ MidPass(key.lhs)
    /\ MidPass(key.rhs)
    /\ key.lhs.set # key.rhs.set
    /\ arg.size = 3
    /\ arg.cursor = 0

\* ------------------------------------- the graph variant (src/src/func_dep.c)
\* A LinkedList is the sequence of its keys from tail to head, a DArray the
\* sequence of its LinkedLists; vertex v has the adjacency list adjList[v + 1]
\* and the entries visited_buf[v + 1] and visited_thresh[v + 1].
LL_init == <<>>

LL_insert(ll, k) == Append(ll, k)

DArray_init_reserve(n) == [i \in 1 .. n |-> LL_init]

DArray_insert(arr) == Append(arr, LL_init)

Graph_init(n_vert) ==
    [adjList |-> DArray_init_reserve(n_vert), n_vert |-> n_vert, n_edge |-> 0]

Graph_add_edge(graph, i, j) ==
    [graph EXCEPT !.adjList[i + 1] = LL_insert(graph.adjList[i + 1], j),
                  !.n_edge = graph.n_edge + 1]

\* the graph with one more vertex; the index of the new vertex is the old
\* n_vert
Graph_new_vertex(graph) ==
    [graph EXCEPT !.adjList = DArray_insert(graph.adjList),
                  !.n_vert = graph.n_vert + 1]

\* main, for (i = 0; i < left; ++i): an edge from every attribute of s to
\* the vertex new_index
RECURSIVE edges_from_for(_, _, _, _)
edges_from_for(graph, s, i, new_index) ==
    IF i >= s.size THEN graph
    ELSE ByValue(LAMBDA np :
                     edges_from_for(Graph_add_edge(graph, np.pos, new_index),
                                    np.s, i + 1, new_index),
                 Set_next_pos(s))

\* main, for (i = 0; i < right; ++i): an edge from the vertex index to every
\* attribute of s
RECURSIVE edges_to_for(_, _, _, _)
edges_to_for(graph, s, i, index) ==
    IF i >= s.size THEN graph
    ELSE ByValue(LAMBDA np :
                     edges_to_for(Graph_add_edge(graph, index, np.pos),
                                  np.s, i + 1, index),
                 Set_next_pos(s))

\* main, the end of the body of while (fgets ...): the graph and the list of
\* thresholds after the line s_left -> s_right
graph_line(g, ll_visited_thresh, s_left, s_right) ==
    IF s_left.size > 1
    THEN [g |-> edges_to_for(
                    edges_from_for(Graph_new_vertex(g), s_left, 0, g.n_vert),
                    s_right, 0, g.n_vert),
          ll_visited_thresh |-> LL_insert(ll_visited_thresh, s_left.size)]
    ELSE [g |-> edges_to_for(g, s_right, 0, Set_next_pos(s_left).pos),
          ll_visited_thresh |-> ll_visited_thresh]

\* Graph_BFS_closure, while (iter != NULL): the neighbours of one vertex
RECURSIVE BFS_neighbors(_, _, _, _, _)
BFS_neighbors(ll, it, search_list, visited_buf, visited_thresh) ==
    IF it > Len(ll)
    THEN [search_list |-> search_list, visited_buf |-> visited_buf]
    ELSE LET neighbor == ll[it]
             thresh   == visited_thresh[neighbor + 1]
         IN  IF visited_buf[neighbor + 1] = thresh
             THEN BFS_neighbors(ll, it + 1, search_list, visited_buf,
                                visited_thresh)
             ELSE IF visited_buf[neighbor + 1] + 1 = thresh
             THEN BFS_neighbors(ll, it + 1, LL_insert(search_list, neighbor),
                                [visited_buf EXCEPT ![neighbor + 1] = @ + 1],
                                visited_thresh)
             ELSE BFS_neighbors(ll, it + 1, search_list,
                                [visited_buf EXCEPT ![neighbor + 1] = @ + 1],
                                visited_thresh)

\* Graph_BFS_closure, while (LL_size(&search_list) != 0)
RECURSIVE BFS_while(_, _, _, _)
BFS_while(graph, search_list, visited_buf, visited_thresh) ==
    IF Len(search_list) = 0 THEN visited_buf
    ELSE ByValue(LAMBDA r :
                     BFS_while(graph, r.search_list, r.visited_buf,
                               visited_thresh),
                 BFS_neighbors(graph.adjList[Head(search_list) + 1], 1,
                               Tail(search_list), visited_buf, visited_thresh))

\* visited_buf after the call
Graph_BFS_closure(graph, source, visited_buf, visited_thresh) ==
    IF visited_buf[source + 1] = 1 THEN visited_buf
    ELSE BFS_while(graph, LL_insert(LL_init, source),
                   [visited_buf EXCEPT ![source + 1] = 1], visited_thresh)

\* check_super_key, for (j = 0; j < g->n_vert; ++j) with j a uint8_t: j
\* takes the values 0, 1, ... and after 255 the value 0 again, so the loop
\* ends when one of the values 0 .. 255 is not below n_vert, with the
\* entries below n_vert zero; else it goes round for ever over the entries
\* 0 .. 255
reset_for(n_vert, visited_buf) ==
    IF \E j \in 0 .. 255 : ~(j < n_vert)
    THEN [ends |-> TRUE,
          visited_buf |-> [i \in 1 .. Len(visited_buf) |->
                              IF i - 1 < n_vert THEN 0 ELSE visited_buf[i]]]
    ELSE [ends |-> FALSE,
          visited_buf |-> [i \in 1 .. Len(visited_buf) |->
                              IF i - 1 <= 255 THEN 0 ELSE visited_buf[i]]]

\* check_super_key, for (j = 0; j < attrib->size; ++j)
RECURSIVE closure_for(_, _, _, _, _)
closure_for(g, attrib, j, visited_buf, visited_thresh) ==
    IF j >= attrib.size THEN visited_buf
    ELSE ByValue(LAMBDA np :
                     closure_for(g, np.s, j + 1,
                                 Graph_BFS_closure(g, np.pos, visited_buf,
                                                   visited_thresh),
                                 visited_thresh),
                 Set_next_pos(attrib))

\* whether the call returns, the value returned and visited_buf as it is left
check_super_key(g, attrib, visited_buf, visited_thresh, n) ==
    ByValue(LAMBDA r :
                IF ~r.ends
                THEN [returns |-> FALSE, value |-> FALSE,
                      visited_buf |-> r.visited_buf]
                ELSE ByValue(LAMBDA buf :
                                 [returns |-> TRUE,
                                  value |-> \A j \in 0 .. (n - 1) :
                                                buf[j + 1] = 1,
                                  visited_buf |-> buf],
                             closure_for(g, attrib, 0, r.visited_buf,
                                         visited_thresh)),
            reset_for(g.n_vert, visited_buf))

\* main before the first line: one vertex of threshold 1 per attribute
main_start(n) ==
    [g |-> Graph_init(n), ll_visited_thresh |-> [i \in 1 .. n |-> 1]]

\* The state of the graph variant: q holds the lines read (q_left and q_right
\* side by side), key the Graph g, work the thresholds, out visited_buf, arg
\* the Set passed to check_super_key and res the call and what it returned;
\* iter counts the lines of the file not yet read when the file is the long
\* one. The files are those of at most MaxLetters letters, and one file of 3
\* attributes whose 253 lines "A,B -> C" make the graph 256 vertices large.
InitGraph ==
    /\ pc = "main"
    /\ \/ n_attribs \in 1 .. MaxAttribs /\ iter = 0
       \/ n_attribs = 3 /\ iter = 256 - 3
    /\ q = Q_init
    /\ key = main_start(n_attribs).g
    /\ work = main_start(n_attribs).ll_visited_thresh
    /\ ckeys = <<>>
    /\ out = <<>>
    /\ arg = NoSet
    /\ res = NoResult

\* the sides of the next line of the file
NextSides ==
    IF iter > 0 THEN {Dep({0, 1}, {2})}
    ELSE {d \in [lhs : Sides(n_attribs), rhs : Sides(n_attribs)] :
              Letters(q) + d.lhs.size + d.rhs.size <= MaxLetters}

\* one more line is read, queued and added to the graph
ReadLineGraph ==
    /\ pc = "main"
    /\ \E d \in NextSides :
           /\ q' = Q_insert(q, d)
           /\ key' = graph_line(key, work, d.lhs, d.rhs).g
           /\ work' = graph_line(key, work, d.lhs, d.rhs).ll_visited_thresh
    /\ iter' = IF iter > 0 THEN iter - 1 ELSE 0
    /\ UNCHANGED <<pc, n_attribs, ckeys, out, arg, res>>

\* end of file: the thresholds are dumped into an array and visited_buf is
\* allocated; malloc does not initialise it
EndOfFile ==
    /\ pc = "main"
    /\ iter = 0
    /\ pc' = "calls"
    /\ \E fill \in {0, 1} : out' = [i \in 1 .. key.n_vert |-> fill]
    /\ UNCHANGED <<n_attribs, q, ckeys, work, key, iter, arg, res>>

\* check_super_key(g, &attrib, visited_buf, visited_thresh, n_attribs) on a
\* Set of attributes; a call that does not return is not followed
CallCheckSuperKey ==
    /\ pc = "calls"
    /\ \E u \in SUBSET Universe(n_attribs) :
           LET r == check_super_key(key, MkSet(u), out, work, n_attribs)
           IN  /\ arg' = MkSet(u)
               /\ res' = Result("check_super_key", MkSet(u), NoSet,
                                [returns |-> r.returns, value |-> r.value])
               /\ out' = r.visited_buf
               /\ pc' = IF r.returns THEN "calls" ELSE "hang"
    /\ UNCHANGED <<n_attribs, q, ckeys, work, key, iter>>

NextGraph == ReadLineGraph \/ EndOfFile \/ CallCheckSuperKey

SpecGraph == InitGraph /\ [][NextGraph]_vars

\* C30: for every list of valid lines (repeated lines and right-hand sides
\* that overlap left-hand sides included) and every set S of attributes,
\* check_super_key on the graph main builds returns, and returns true
\* exactly when the least closed set that contains S, which is the Set
\* compute_closure makes of S, is the universe.
C30_GraphEqualsFixpoint ==
    res.op = "check_super_key" =>
        /\ res.val.returns
        /\ res.val.value <=> IsSuperkeySet(res.in.set, q, n_attribs)
        /\ res.val.value <=>
               Set_is_full(compute_closure(res.in, q, n_attribs), n_attribs)

\* the same for the graphs of at most 255 vertices
GraphEqualsFixpointSmall ==
    (res.op = "check_super_key" /\ key.n_vert < 256) =>
        C30_GraphEqualsFixpoint

====
